---- MODULE Spec2Model ----
(***************************************************************************)
(* Model of scripts/create-icons.py: the icon generator create_icon, the   *)
(* driver main, and the top-level try/except of the __main__ guard.        *)
(*                                                                         *)
(* An image is the canvas size together with the list of drawing calls     *)
(* made on it, in call order.  The colour of a pixel is the fill of the    *)
(* last call that covers it (ImageDraw paints opaque fills over what is    *)
(* there), or the canvas colour when no call covers it.  Pixels exist only *)
(* for 0 <= x < w and 0 <= y < h: whatever a call asks for beyond that is  *)
(* clipped.                                                                *)
(***************************************************************************)
EXTENDS Integers, Sequences, FiniteSets, TLC

\* Bounds of the model.
MaxRuns == 2      \* how many times in a row the script is started
MaxSize == 128    \* largest size handed to create_icon on its own (SpecGen)

VARIABLES
    pc,            \* position of the process
    run,           \* number of the current start of the script (1..MaxRuns)
    dirExists,     \* whether <parent>/extension/icons exists
    disk,          \* the files of that directory: name -> content
    i,             \* index into Sizes of the size being generated
    size,          \* create_icon's parameter size
    filename,      \* create_icon's parameter filename
    img,           \* create_icon's local img
    exc,           \* the exception raised in this run: "none", "ImportError", "Exception"
    raisedIn,      \* where it was raised: "none", "import", "makedirs", "new", "save"
    failedAt,      \* index of the size whose generation raised, 0 if none
    out,           \* lines printed by this run, in order
    calls,         \* create_icon calls begun in this run, in order
    written,       \* files this run has saved completely, in order
    startDisk,     \* history: disk when this run started
    startDir,      \* history: dirExists when this run started
    prevExc,       \* history: exc at the end of the previous run ("first" in run 1)
    prevFailedAt   \* history: failedAt at the end of the previous run

vars == <<pc, run, dirExists, disk, i, size, filename, img, exc, raisedIn, failedAt,
          out, calls, written, startDisk, startDir, prevExc, prevFailedAt>>

-----------------------------------------------------------------------------
\* Colours (RGBA; an RGB fill is stored opaque).

Transparent == <<0, 0, 0, 0>>
bg_color == <<37, 99, 235, 255>>
text_color == <<255, 255, 255, 255>>
badge_color == <<52, 211, 153, 255>>

RGB(c) == <<c[1], c[2], c[3]>>

\* int(n * 0.6), int(n * 0.7), int(n * 0.9) in double arithmetic.  The product
\* is rounded to the nearest double before truncation; for 0 <= n < 400 the
\* result is the exact floor except for 0.7 at the listed n, where the double
\* product falls just below the integer.
IntTimes06(n) == (n * 6) \div 10
IntTimes07(n) ==
    IF n \in {90, 170, 180, 330, 340, 350, 360} THEN (n * 7) \div 10 - 1
    ELSE (n * 7) \div 10
IntTimes09(n) == (n * 9) \div 10

Max(a, b) == IF a >= b THEN a ELSE b

-----------------------------------------------------------------------------
\* Images and drawing calls.

NoImage == [w |-> 0, h |-> 0, ops |-> <<>>]

ImageNew(s) == [w |-> s, h |-> s, ops |-> <<>>]

DrawOp(kind, xy, radius, fill) ==
    [k |-> kind, xy |-> xy, radius |-> radius, fill |-> fill]

Draw(im, op) == [im EXCEPT !.ops = Append(@, op)]

margin(s) == s \div 8

RoundedRectangleOp(s) ==
    DrawOp("rounded_rectangle",
           <<margin(s), margin(s), s - margin(s), s - margin(s)>>,
           s \div 6, bg_color)

bookmark_width(s) == s \div 2
bookmark_height(s) == IntTimes06(s)
bookmark_x(s) == (s - bookmark_width(s)) \div 2
bookmark_y(s) == (s - bookmark_height(s)) \div 2

bookmark_points(s) ==
    << bookmark_x(s), bookmark_y(s),
       bookmark_x(s) + bookmark_width(s), bookmark_y(s),
       bookmark_x(s) + bookmark_width(s), bookmark_y(s) + IntTimes07(bookmark_height(s)),
       bookmark_x(s) + bookmark_width(s) \div 2, bookmark_y(s) + IntTimes09(bookmark_height(s)),
       bookmark_x(s), bookmark_y(s) + IntTimes07(bookmark_height(s)) >>

PolygonOp(s) == DrawOp("polygon", bookmark_points(s), 0, text_color)

HasBadgeStrict(s) == s > 32
HasBadge(s) == s >= 32

plus_size(s) == s \div 8
plus_x_NoInset(s) == s - plus_size(s)
plus_x(s) == s - plus_size(s) - 2
plus_y == 2
plus_thickness(s) == Max(1, plus_size(s) \div 4)

EllipseOp(s) ==
    DrawOp("ellipse",
           <<plus_x(s) - 2, plus_y - 2,
             plus_x(s) + plus_size(s) + 2, plus_y + plus_size(s) + 2>>,
           0, badge_color)

VerticalBarOp(s) ==
    DrawOp("rectangle",
           <<plus_x(s) + plus_size(s) \div 2 - plus_thickness(s) \div 2, plus_y,
             plus_x(s) + plus_size(s) \div 2 + plus_thickness(s) \div 2, plus_y + plus_size(s)>>,
           0, text_color)

HorizontalBarOp(s) ==
    DrawOp("rectangle",
           <<plus_x(s), plus_y + plus_size(s) \div 2 - plus_thickness(s) \div 2,
             plus_x(s) + plus_size(s), plus_y + plus_size(s) \div 2 + plus_thickness(s) \div 2>>,
           0, text_color)

-----------------------------------------------------------------------------
\* Which pixels a drawing call covers.  Coordinates are inclusive on both
\* ends, as ImageDraw takes them.

InRectangle(xy, x, y) == xy[1] <= x /\ x <= xy[3] /\ xy[2] <= y /\ y <= xy[4]

\* Pixel inside the ellipse inscribed in the box xy (coordinates doubled to
\* stay in the integers).
InEllipse(xy, x, y) ==
    LET a == xy[3] - xy[1]
        b == xy[4] - xy[2]
        dx == 2 * x - xy[1] - xy[3]
        dy == 2 * y - xy[2] - xy[4]
    IN  dx * dx * b * b + dy * dy * a * a <= a * a * b * b

\* Rectangle xy with its four corners cut to quarter circles of radius r.
InRoundedRectangle(xy, r, x, y) ==
    LET dx == IF x < xy[1] + r THEN xy[1] + r - x
              ELSE IF x > xy[3] - r THEN x - (xy[3] - r) ELSE 0
        dy == IF y < xy[2] + r THEN xy[2] + r - y
              ELSE IF y > xy[4] - r THEN y - (xy[4] - r) ELSE 0
    IN  /\ InRectangle(xy, x, y)
        /\ (dx > 0 /\ dy > 0) => dx * dx + dy * dy <= r * r

\* Convex polygon given as x1, y1, x2, y2, ...: the pixel is on the same side
\* of every edge (or on an edge).
InPolygon(pts, x, y) ==
    LET n == Len(pts) \div 2
        px(k) == pts[2 * k - 1]
        py(k) == pts[2 * k]
        nxt(k) == IF k = n THEN 1 ELSE k + 1
        cross(k) == (px(nxt(k)) - px(k)) * (y - py(k)) - (py(nxt(k)) - py(k)) * (x - px(k))
    IN  \/ \A k \in 1..n : cross(k) >= 0
        \/ \A k \in 1..n : cross(k) <= 0

Covers(op, x, y) ==
    CASE op.k = "rectangle" -> InRectangle(op.xy, x, y)
      [] op.k = "ellipse" -> InEllipse(op.xy, x, y)
      [] op.k = "rounded_rectangle" -> InRoundedRectangle(op.xy, op.radius, x, y)
      [] op.k = "polygon" -> InPolygon(op.xy, x, y)

\* The colour of pixel (x, y) of image im, 0 <= x < im.w, 0 <= y < im.h.
PixelAt(im, x, y) ==
    LET over == {k \in 1..Len(im.ops) : Covers(im.ops[k], x, y)}
    IN  IF over = {} THEN Transparent
        ELSE im.ops[CHOOSE k \in over : \A j \in over : j <= k].fill

-----------------------------------------------------------------------------
\* The driver's constants and the file system.

SizesSwapped == <<16, 48, 32, 128>>
Sizes == <<16, 32, 48, 128>>

IconName(s) == <<"icon", s, ".png">>

IconNames == {IconName(Sizes[k]) : k \in 1..Len(Sizes)}

SiblingName == <<"README", 0, ".md">>
SiblingFile == [w |-> 1, h |-> 1, ops |-> <<>>]

\* An icon file left by an earlier version of the script.
StaleIcon(s) == [w |-> s, h |-> s, ops |-> <<RoundedRectangleOp(s)>>]

\* open(filename, "w+b") followed by a complete write: the file holds exactly
\* the new content, whatever it held before.
WriteFile(d, name, content) ==
    [n \in DOMAIN d \cup {name} |-> IF n = name THEN content ELSE d[n]]

EmptyDisk == [n \in {} |-> NoImage]


icons_dir == "extension/icons"

IconPath(s) == [dir |-> icons_dir, name |-> IconName(s)]

NoPath == [dir |-> "", name |-> <<"", 0, "">>]

-----------------------------------------------------------------------------
\* Console output.

Line(text, path, n) == [line |-> text, path |-> path, size |-> n]

CreatedLine(path, s) == Line("Created", path, s)

SummaryLines ==
    << Line("All icons created successfully!", NoPath, 0),
       Line("Icons saved to:", [dir |-> icons_dir, name |-> <<"", 0, "">>], 0),
       Line("Next steps:", NoPath, 0),
       Line("1. Review the generated icons", NoPath, 0),
       Line("2. Consider creating custom icons with a design tool if needed", NoPath, 0),
       Line("3. Update your extension manifest if necessary", NoPath, 0) >>

ImportErrorLines ==
    << Line("Error: Pillow library not found", NoPath, 0),
       Line("Install it with: pip install Pillow", NoPath, 0),
       Line("Or create icons manually using any image editor", NoPath, 0) >>

ExceptionLines ==
    << Line("Error creating icons: {e}", NoPath, 0),
       Line("You can create icons manually using any image editor", NoPath, 0) >>

-----------------------------------------------------------------------------
\* Exceptions.  Inside main() an exception unwinds to the try of the __main__
\* guard; nothing in create_icon or main catches it.

Raise(kind, where) ==
    /\ exc' = kind
    /\ raisedIn' = where
    /\ failedAt' = i
    /\ pc' = "except"

NoRaise == UNCHANGED <<exc, raisedIn, failedAt>>

History == <<run, startDisk, startDir, prevExc, prevFailedAt>>

-----------------------------------------------------------------------------
\* Module level, line 7: the import runs before the try statement is reached.

ImportPIL ==
    /\ pc = "import"
    /\ \/ /\ pc' = "main"
          /\ NoRaise
       \/ /\ exc' = "ImportError"
          /\ raisedIn' = "import"
          /\ failedAt' = 0
          /\ pc' = "crash"
    /\ UNCHANGED <<dirExists, disk, i, size, filename, img, out, calls, written>>
    /\ UNCHANGED History

\* main(), lines 78-86: os.makedirs(icons_dir, exist_ok=True).  With
\* exist_ok=True an existing directory is accepted; creating a missing one
\* can fail (permissions, read-only file system).
MakeDirsNoExistOk ==
    /\ pc = "main"
    /\ \/ /\ ~dirExists
          /\ dirExists' = TRUE
          /\ pc' = "loop"
          /\ NoRaise
       \/ /\ dirExists
          /\ UNCHANGED dirExists
          /\ Raise("Exception", "makedirs")
    /\ i' = 0
    /\ UNCHANGED <<disk, size, filename, img, out, calls, written>>
    /\ UNCHANGED History

MakeDirs ==
    /\ pc = "main"
    /\ \/ /\ dirExists' = TRUE
          /\ pc' = "loop"
          /\ NoRaise
       \/ /\ ~dirExists
          /\ UNCHANGED dirExists
          /\ Raise("Exception", "makedirs")
    /\ i' = 0
    /\ UNCHANGED <<disk, size, filename, img, out, calls, written>>
    /\ UNCHANGED History

\* main(), lines 88-90: the for statement takes the next size and calls
\* create_icon(size, filename); when the list is exhausted the loop ends.
LoopNextResume ==
    /\ pc = "loop"
    /\ LET todo == {k \in (i + 1)..Len(Sizes) : IconName(Sizes[k]) \notin DOMAIN disk}
       IN  IF todo # {}
           THEN LET k == CHOOSE m \in todo : \A n \in todo : m <= n
                IN  /\ i' = k
                    /\ size' = Sizes[k]
                    /\ filename' = IconPath(Sizes[k])
                    /\ calls' = Append(calls, [size |-> Sizes[k], path |-> IconPath(Sizes[k])])
                    /\ pc' = "new"
           ELSE /\ pc' = "summary"
                /\ UNCHANGED <<i, size, filename, calls>>
    /\ NoRaise
    /\ UNCHANGED <<dirExists, disk, img, out, written>>
    /\ UNCHANGED History

LoopNext ==
    /\ pc = "loop"
    /\ IF i < Len(Sizes)
       THEN /\ i' = i + 1
            /\ size' = Sizes[i + 1]
            /\ filename' = IconPath(Sizes[i + 1])
            /\ calls' = Append(calls, [size |-> Sizes[i + 1], path |-> IconPath(Sizes[i + 1])])
            /\ pc' = "new"
       ELSE /\ pc' = "summary"
            /\ UNCHANGED <<i, size, filename, calls>>
    /\ NoRaise
    /\ UNCHANGED <<dirExists, disk, img, out, written>>
    /\ UNCHANGED History

\* create_icon, lines 14-15.  Image.new needs Pillow's C core: when the
\* package imports but its core does not load, the first use raises
\* ImportError; an allocation failure raises another exception.
ImageOpenExisting(s) ==
    IF filename.name \in DOMAIN disk /\ disk[filename.name].w = s
    THEN disk[filename.name]
    ELSE ImageNew(s)

NewCanvas(s) == ImageNew(s)

NewImage ==
    /\ pc = "new"
    /\ \/ /\ img' = NewCanvas(size)
          /\ pc' = "background"
          /\ NoRaise
       \/ /\ \E kind \in {"ImportError", "Exception"} : Raise(kind, "new")
          /\ UNCHANGED img
    /\ UNCHANGED <<dirExists, disk, i, size, filename, out, calls, written>>
    /\ UNCHANGED History

\* create_icon, lines 22-27.
DrawBackground ==
    /\ pc = "background"
    /\ img' = Draw(img, RoundedRectangleOp(size))
    /\ pc' = "bookmark"
    /\ NoRaise
    /\ UNCHANGED <<dirExists, disk, i, size, filename, out, calls, written>>
    /\ UNCHANGED History

\* create_icon, lines 30-44.
DrawBookmark ==
    /\ pc = "bookmark"
    /\ img' = Draw(img, PolygonOp(size))
    /\ pc' = "badge"
    /\ NoRaise
    /\ UNCHANGED <<dirExists, disk, i, size, filename, out, calls, written>>
    /\ UNCHANGED History

\* create_icon, lines 47-69.
DrawBadge ==
    /\ pc = "badge"
    /\ img' = IF HasBadge(size)
              THEN Draw(Draw(Draw(img, EllipseOp(size)), VerticalBarOp(size)),
                        HorizontalBarOp(size))
              ELSE img
    /\ pc' = "save"
    /\ NoRaise
    /\ UNCHANGED <<dirExists, disk, i, size, filename, out, calls, written>>
    /\ UNCHANGED History

\* create_icon, line 72: img.save(filename, 'PNG').  The file is opened for
\* writing (which needs the directory, and truncates what was there) and the
\* encoded image written.  A failure leaves the file as it was when the open
\* failed, and truncated when the write failed.
SaveImageOk ==
    /\ pc = "save"
    /\ dirExists
    /\ disk' = WriteFile(disk, filename.name, img)
    /\ written' = Append(written, [size |-> size, path |-> filename, image |-> img])
    /\ pc' = "print"
    /\ NoRaise
    /\ UNCHANGED <<dirExists, i, size, filename, img, out, calls>>
    /\ UNCHANGED History

SaveImageFail ==
    /\ pc = "save"
    /\ \/ UNCHANGED disk
       \/ /\ dirExists
          /\ disk' = WriteFile(disk, filename.name, NoImage)
    /\ Raise("Exception", "save")
    /\ UNCHANGED <<dirExists, i, size, filename, img, out, calls, written>>
    /\ UNCHANGED History

\* create_icon, line 73, and the return to the loop.
PrintCreated ==
    /\ pc = "print"
    /\ out' = Append(out, CreatedLine(filename, size))
    /\ img' = NoImage
    /\ pc' = "loop"
    /\ NoRaise
    /\ UNCHANGED <<dirExists, disk, i, size, filename, calls, written>>
    /\ UNCHANGED History

\* main(), lines 92-97, then the normal end of the script.
PrintSummary ==
    /\ pc = "summary"
    /\ out' = out \o SummaryLines
    /\ pc' = "exit"
    /\ NoRaise
    /\ UNCHANGED <<dirExists, disk, i, size, filename, img, calls, written>>
    /\ UNCHANGED History

\* __main__ guard, lines 102-105.
HandleImportError ==
    /\ pc = "except"
    /\ exc = "ImportError"
    /\ out' = out \o ImportErrorLines
    /\ pc' = "exit"
    /\ NoRaise
    /\ UNCHANGED <<dirExists, disk, i, size, filename, img, calls, written>>
    /\ UNCHANGED History

\* __main__ guard, lines 106-108.
HandleExceptionThenSummary ==
    /\ pc = "except"
    /\ exc = "Exception"
    /\ out' = out \o ExceptionLines \o SummaryLines
    /\ pc' = "exit"
    /\ NoRaise
    /\ UNCHANGED <<dirExists, disk, i, size, filename, img, calls, written>>
    /\ UNCHANGED History

HandleException ==
    /\ pc = "except"
    /\ exc = "Exception"
    /\ out' = out \o ExceptionLines
    /\ pc' = "exit"
    /\ NoRaise
    /\ UNCHANGED <<dirExists, disk, i, size, filename, img, calls, written>>
    /\ UNCHANGED History

\* The script is started again after it has ended: a new process, the same
\* file system.
Rerun ==
    /\ pc \in {"exit", "crash"}
    /\ run < MaxRuns
    /\ run' = run + 1
    /\ startDisk' = disk
    /\ startDir' = dirExists
    /\ prevExc' = exc
    /\ prevFailedAt' = failedAt
    /\ pc' = "import"
    /\ i' = 0
    /\ size' = 0
    /\ filename' = NoPath
    /\ img' = NoImage
    /\ exc' = "none"
    /\ raisedIn' = "none"
    /\ failedAt' = 0
    /\ out' = <<>>
    /\ calls' = <<>>
    /\ written' = <<>>
    /\ UNCHANGED <<dirExists, disk>>

-----------------------------------------------------------------------------
\* The script started in a file system where the icons directory is missing,
\* or exists empty, or holds another file, or holds another file and icons of
\* an earlier run.

InitialDisks ==
    { EmptyDisk,
      WriteFile(EmptyDisk, SiblingName, SiblingFile),
      [n \in IconNames \cup {SiblingName} |->
          IF n = SiblingName THEN SiblingFile ELSE StaleIcon(n[2])] }

Init ==
    /\ pc = "import"
    /\ run = 1
    /\ \/ dirExists = FALSE /\ disk = EmptyDisk
       \/ dirExists = TRUE /\ disk \in InitialDisks
    /\ i = 0
    /\ size = 0
    /\ filename = NoPath
    /\ img = NoImage
    /\ exc = "none"
    /\ raisedIn = "none"
    /\ failedAt = 0
    /\ out = <<>>
    /\ calls = <<>>
    /\ written = <<>>
    /\ startDisk = disk
    /\ startDir = dirExists
    /\ prevExc = "first"
    /\ prevFailedAt = 0

Next ==
    \/ ImportPIL
    \/ MakeDirs
    \/ LoopNext
    \/ NewImage
    \/ DrawBackground
    \/ DrawBookmark
    \/ DrawBadge
    \/ SaveImageOk
    \/ SaveImageFail
    \/ PrintCreated
    \/ PrintSummary
    \/ HandleImportError
    \/ HandleException
    \/ Rerun

Spec == Init /\ [][Next]_vars

-----------------------------------------------------------------------------
\* create_icon on its own: one call generate(size, path) for any size up to
\* MaxSize, the target directory present or not.

InitGen ==
    /\ pc = "new"
    /\ run = 1
    /\ dirExists \in BOOLEAN
    /\ disk = EmptyDisk
    /\ i = 1
    /\ size \in 1..MaxSize
    /\ filename = IconPath(size)
    /\ img = NoImage
    /\ exc = "none"
    /\ raisedIn = "none"
    /\ failedAt = 0
    /\ out = <<>>
    /\ calls = <<[size |-> size, path |-> filename]>>
    /\ written = <<>>
    /\ startDisk = disk
    /\ startDir = dirExists
    /\ prevExc = "first"
    /\ prevFailedAt = 0

NextGen ==
    \/ NewImage
    \/ DrawBackground
    \/ DrawBookmark
    \/ DrawBadge
    \/ SaveImageOk
    \/ SaveImageFail
    \/ PrintCreated

SpecGen == InitGen /\ [][NextGen]_vars

-----------------------------------------------------------------------------
\* Vocabulary of the properties, spelled as the specification spells it.

FourSizes == <<16, 32, 48, 128>>

TargetOf(s) == [dir |-> "extension/icons", name |-> <<"icon", s, ".png">>]

BadgeGreen == <<52, 211, 153>>

InCreateIcon == pc \in {"background", "bookmark", "badge", "save", "print"}

Printed(text) == \E k \in 1..Len(out) : out[k].line = text

TimesPrinted(text) == Cardinality({k \in 1..Len(out) : out[k].line = text})

-----------------------------------------------------------------------------
\* C1: in a run in which nothing fails, create_icon is called exactly once
\* per size, in the order 16, 32, 48, 128, each call beginning only after the
\* previous size's file has been written, each call targeting
\* <output-dir>/icon<size>.png with a canvas of size x size pixels; when the
\* run ends exactly those four files have been written, each size x size.
C1_SequentialBatch ==
    /\ Len(calls) <= Len(written) + 1
    /\ Len(calls) <= 4
    /\ \A k \in 1..Len(calls) :
          /\ calls[k].size = FourSizes[k]
          /\ calls[k].path = TargetOf(FourSizes[k])
    /\ InCreateIcon => img.w = size /\ img.h = size
    /\ \A k \in 1..Len(written) :
          /\ written[k].size = FourSizes[k]
          /\ written[k].path = TargetOf(FourSizes[k])
          /\ written[k].image.w = FourSizes[k]
          /\ written[k].image.h = FourSizes[k]
    /\ (pc = "exit" /\ exc = "none") =>
          /\ Len(calls) = 4
          /\ Len(written) = 4
          /\ \A k \in 1..4 :
                /\ TargetOf(FourSizes[k]).name \in DOMAIN disk
                /\ disk[TargetOf(FourSizes[k]).name].w = FourSizes[k]
                /\ disk[TargetOf(FourSizes[k]).name].h = FourSizes[k]

C1_Witness == pc = "exit" /\ exc = "none" /\ Len(written) = 4 /\ Len(calls) = 4

\* C2: when Pillow is unavailable the ImportError is caught by the top-level
\* handler, the installation hint is printed and the process ends normally,
\* never with an unhandled exception.
C2_MissingPillowHandled ==
    exc = "ImportError" =>
        /\ pc # "crash"
        /\ pc = "exit" => Printed("Install it with: pip install Pillow")

\* C3: an exception other than ImportError raised anywhere in the batch is not
\* handled in create_icon: it goes straight to the top-level handler, which
\* prints the error and the manual-fallback suggestion, and the process ends
\* normally; no run ends in an unhandled exception.
C3_EveryFailureHandledAtTop ==
    /\ exc = "Exception" => pc \in {"except", "exit"}
    /\ (exc = "Exception" /\ pc = "exit") =>
          /\ Printed("Error creating icons: {e}")
          /\ Printed("You can create icons manually using any image editor")
          /\ Len(calls) = failedAt
          /\ TimesPrinted("Created") = Len(written)
    /\ pc # "crash"

\* C4: when the batch fails while generating the k-th size, the files of the
\* sizes before it are on disk as written when the run ends, no call is made
\* for a later size, and a following run that does not fail generates all
\* four icons again.
C4_PartialBatch ==
    /\ failedAt >= 1 =>
          /\ Len(calls) = failedAt
          /\ Len(written) \in {failedAt - 1, failedAt}
    /\ (pc = "exit" /\ failedAt >= 1) =>
          \A j \in 1..(failedAt - 1) :
             /\ written[j].size = FourSizes[j]
             /\ TargetOf(FourSizes[j]).name \in DOMAIN disk
             /\ disk[TargetOf(FourSizes[j]).name] = written[j].image
    /\ (pc = "exit" /\ exc = "none" /\ prevFailedAt >= 1) =>
          /\ Len(calls) = 4
          /\ Len(written) = 4
          /\ \A j \in 1..4 :
                /\ calls[j].size = FourSizes[j]
                /\ written[j].size = FourSizes[j]
                /\ disk[TargetOf(FourSizes[j]).name] = written[j].image

C4_Witness ==
    /\ run = 2
    /\ pc = "exit"
    /\ exc = "none"
    /\ prevFailedAt = 3
    /\ prevExc = "Exception"
    /\ Len(written) = 4

\* C5: the summary is printed at most once, only after the four files have
\* been written and the four Created lines printed, and never in a run in
\* which a step failed.
C5_SummaryLast ==
    /\ TimesPrinted("All icons created successfully!") <= 1
    /\ \A k \in 1..Len(out) :
          out[k].line = "All icons created successfully!" =>
             /\ k = 5
             /\ \A j \in 1..4 : out[j] = [line |-> "Created", path |-> TargetOf(FourSizes[j]),
                                          size |-> FourSizes[j]]
             /\ Len(written) = 4
             /\ \A j \in 1..4 : written[j].path = TargetOf(FourSizes[j])
    /\ exc # "none" => ~Printed("All icons created successfully!")

C5_Witness ==
    /\ Len(out) = 10
    /\ out[5].line = "All icons created successfully!"
    /\ out[4].line = "Created"

\* C6: the badge is drawn exactly when size >= 32: the written image of a
\* size >= 32 has a badge-green pixel in the top-right quadrant that the white
\* bars do not cover, and the written image of a size < 32 has no badge-green
\* pixel at all.
C6_BadgeIffLarge ==
    \A k \in 1..Len(written) :
       LET im == written[k].image
           s == written[k].size
       IN  IF s >= 32
           THEN \E y \in 0..(im.h - 1) : \E x \in 0..(im.w - 1) :
                   /\ 2 * x >= s
                   /\ 2 * y < s
                   /\ RGB(PixelAt(im, x, y)) = BadgeGreen
           ELSE \A y \in 0..(im.h - 1) : \A x \in 0..(im.w - 1) :
                   RGB(PixelAt(im, x, y)) # BadgeGreen

C6_Witness ==
    /\ Len(written) = 1
    /\ written[1].size = 32
    /\ RGB(PixelAt(written[1].image, 27, 3)) = BadgeGreen

\* C7: running the batch twice is idempotent: after a second run that
\* follows a complete run every icon file is what it was, whatever the files
\* held before the first run, and an existing file does not stop the save.
C7_Idempotent ==
    /\ (pc = "exit" /\ exc = "none" /\ prevExc = "none") =>
          \A k \in 1..4 :
             /\ TargetOf(FourSizes[k]).name \in DOMAIN startDisk
             /\ TargetOf(FourSizes[k]).name \in DOMAIN disk
             /\ disk[TargetOf(FourSizes[k]).name] = startDisk[TargetOf(FourSizes[k]).name]
    /\ (pc = "save" /\ dirExists) => ENABLED SaveImageOk

C7_Witness ==
    /\ run = 2
    /\ pc = "exit"
    /\ exc = "none"
    /\ prevExc = "none"
    /\ \A k \in 1..4 : written[k].image = startDisk[TargetOf(FourSizes[k]).name]

\* C8: the directory step does not fail when the directory exists, and a
\* file of the directory that is not one of the four icons is never changed,
\* whether the run succeeds or fails.
C8_DirectoryFrame ==
    /\ raisedIn = "makedirs" => ~startDir
    /\ \A n \in DOMAIN startDisk :
          n \notin {TargetOf(FourSizes[k]).name : k \in 1..4} =>
             /\ n \in DOMAIN disk
             /\ disk[n] = startDisk[n]

C8_Witness ==
    /\ pc = "exit"
    /\ startDir
    /\ <<"README", 0, ".md">> \in DOMAIN startDisk
    /\ Len(written) >= 2

\* C9: for the sizes 32, 48, 128 each bar of the plus sign covers exactly
\* max(1, (size // 8) // 4) pixel columns (vertical bar) or rows (horizontal
\* bar).
C9_BarThickness ==
    (pc = "save" /\ size >= 32) =>
        /\ img.ops[4].xy[3] - img.ops[4].xy[1] + 1 = Max(1, (size \div 8) \div 4)
        /\ img.ops[5].xy[4] - img.ops[5].xy[2] + 1 = Max(1, (size \div 8) \div 4)

\* C10 as stated: for the sizes 32, 48, 128 every coordinate of the badge
\* circle's bounding box and of both bars lies between 0 and size-1.
C10_BadgeInsideGrid ==
    (pc = "save" /\ size >= 32) =>
        \A k \in 3..5 : \A c \in 1..4 :
           img.ops[k].xy[c] >= 0 /\ img.ops[k].xy[c] <= size - 1

\* C10 amended: every coordinate of both bars, and the left, top and bottom
\* edges of the circle's bounding box, lie between 0 and size-1; the right
\* edge of the bounding box is exactly size, one column beyond the grid.
C10_BadgeRightEdgeAtSize ==
    (pc = "save" /\ size >= 32) =>
        /\ \A k \in 4..5 : \A c \in 1..4 :
              img.ops[k].xy[c] >= 0 /\ img.ops[k].xy[c] <= size - 1
        /\ \A c \in {1, 2, 4} :
              img.ops[3].xy[c] >= 0 /\ img.ops[3].xy[c] <= size - 1
        /\ img.ops[3].k = "ellipse"
        /\ img.ops[3].xy[3] = size

C10_Witness ==
    /\ pc = "save"
    /\ size = 128
    /\ Len(img.ops) = 5
    /\ img.ops[3].xy = <<108, 0, 128, 20>>

====
